---- MODULE Spec2Model ----
(***************************************************************************)
(* Model of notebook_v1.py: the Cell / Notebook object model, the JSON     *)
(* Serializer, the PyPercentSerializer and the Outliner.                   *)
(*                                                                         *)
(* A Python str is a sequence of one-character strings.  The box-drawing   *)
(* characters of the Outliner are written as the tokens "<U+250C>" etc.,   *)
(* each standing for one character.  A Python value that may be None, an   *)
(* int or a float is a tagged record (PyNone, PyInt, PyFloat).  A dict is  *)
(* a record; a missing key is a missing field.                             *)
(***************************************************************************)
EXTENDS Integers, Sequences, FiniteSets, TLC

VARIABLES raw, pc, nb, ret, disk, iterator

vars == <<raw, pc, nb, ret, disk, iterator>>

(***************************************************************************)
(* Bounds of the model.                                                    *)
(***************************************************************************)
MaxCells == 2
MaxSourceLen == 3

(***************************************************************************)
(* Python str helpers.                                                     *)
(***************************************************************************)
NL == "\n"

\* the characters str.strip() removes by default (those the model uses)
Whitespace == {" ", NL, "\t"}

RECURSIVE LStrip(_)
LStrip(s) ==
    IF s # <<>> /\ Head(s) \in Whitespace THEN LStrip(Tail(s)) ELSE s

RECURSIVE RStrip(_)
RStrip(s) ==
    IF s # <<>> /\ s[Len(s)] \in Whitespace
    THEN RStrip(SubSeq(s, 1, Len(s) - 1))
    ELSE s

\* str.strip()
Strip(s) == RStrip(LStrip(s))

\* sep.join(list)
RECURSIVE Join(_, _)
Join(sep, list) ==
    IF list = <<>> THEN <<>>
    ELSE IF Len(list) = 1 THEN list[1]
    ELSE list[1] \o sep \o Join(sep, Tail(list))

\* index of the first occurrence of character c in s, 0 when absent
RECURSIVE Find(_, _)
Find(s, c) ==
    IF s = <<>> THEN 0
    ELSE IF Head(s) = c THEN 1
    ELSE LET r == Find(Tail(s), c) IN IF r = 0 THEN 0 ELSE r + 1

\* str.split(c), for a one-character separator
RECURSIVE Split(_, _)
Split(s, c) ==
    LET i == Find(s, c) IN
    IF i = 0 THEN <<s>>
    ELSE <<SubSeq(s, 1, i - 1)>> \o Split(SubSeq(s, i + 1, Len(s)), c)

(***************************************************************************)
(* Python values: None, int, float; str() and int() of them.               *)
(***************************************************************************)
PyNone == [t |-> "None"]
PyInt(n) == [t |-> "int", v |-> n]
\* the float i.f, with f a single decimal digit
PyFloat(i, f) == [t |-> "float", i |-> i, f |-> f]

Digits == <<"0", "1", "2", "3", "4", "5", "6", "7", "8", "9">>
DigitSet == {Digits[i] : i \in 1..Len(Digits)}
DigitValue(c) == (CHOOSE i \in 1..Len(Digits) : Digits[i] = c) - 1

RECURSIVE NatToStr(_)
NatToStr(n) ==
    IF n < 10 THEN <<Digits[n + 1]>>
    ELSE NatToStr(n \div 10) \o <<Digits[(n % 10) + 1]>>

\* str(n) of an int
IntToStr(n) == IF n < 0 THEN <<"-">> \o NatToStr(-n) ELSE NatToStr(n)

\* str(v), as an f-string field formats it
PyStr(v) ==
    CASE v.t = "None" -> <<"N", "o", "n", "e">>
      [] v.t = "int" -> IntToStr(v.v)
      [] v.t = "float" -> IntToStr(v.i) \o <<".">> \o NatToStr(v.f)

RECURSIVE DigitsValue(_, _)
DigitsValue(s, acc) ==
    IF s = <<>> THEN acc
    ELSE IF Head(s) = "_" THEN DigitsValue(Tail(s), acc)
    ELSE DigitsValue(Tail(s), 10 * acc + DigitValue(Head(s)))

\* the digit part of an int literal: digits, single underscores between them
IsDigitPart(s) ==
    /\ s # <<>>
    /\ \A i \in 1..Len(s) : s[i] \in DigitSet \cup {"_"}
    /\ s[1] # "_" /\ s[Len(s)] # "_"
    /\ \A i \in 1..(Len(s) - 1) : ~(s[i] = "_" /\ s[i + 1] = "_")

\* int(s) of a str: surrounding whitespace, an optional sign, the digit part;
\* ValueError otherwise
IntOfStr(s) ==
    LET body == Strip(s)
        signed == body # <<>> /\ Head(body) \in {"+", "-"}
        digits == IF signed THEN Tail(body) ELSE body
    IN  IF IsDigitPart(digits)
        THEN [exc |-> "none",
              v |-> IF signed /\ Head(body) = "-"
                    THEN 0 - DigitsValue(digits, 0)
                    ELSE DigitsValue(digits, 0)]
        ELSE [exc |-> "ValueError"]

(***************************************************************************)
(* The object model: Cell, CodeCell, MarkdownCell, Notebook.               *)
(* A constructor returns [exc |-> "none", obj |-> ...] or the exception    *)
(* it raises.                                                              *)
(***************************************************************************)
HasKey(d, k) == k \in DOMAIN d

\* Cell.__init__: self.id = ipynb['id']; self.source = ipynb['source']
Cell(ipynb) ==
    IF HasKey(ipynb, "id") /\ HasKey(ipynb, "source")
    THEN [exc |-> "none", obj |-> [id |-> ipynb.id, source |-> ipynb.source]]
    ELSE [exc |-> "KeyError"]

\* CodeCell.__init__: execution_count first, then Cell.__init__
CodeCell(ipynb) ==
    IF ~HasKey(ipynb, "execution_count") THEN [exc |-> "KeyError"]
    ELSE LET base == Cell(ipynb) IN
         IF base.exc # "none" THEN base
         ELSE [exc |-> "none",
               obj |-> [class |-> "CodeCell",
                        id |-> base.obj.id,
                        source |-> base.obj.source,
                        execution_count |-> ipynb.execution_count]]

\* MarkdownCell.__init__
MarkdownCell(ipynb) ==
    LET base == Cell(ipynb) IN
    IF base.exc # "none" THEN base
    ELSE [exc |-> "none",
          obj |-> [class |-> "MarkdownCell",
                   id |-> base.obj.id,
                   source |-> base.obj.source]]

\* isinstance(cell, MarkdownCell), isinstance(cell, CodeCell)
IsMarkdownCell(cell) == cell.class = "MarkdownCell"
IsCodeCell(cell) == cell.class = "CodeCell"

\* toolbox.get_format_version (notebook_v0): "<nbformat>.<nbformat_minor>"
get_format_version(d) ==
    PyStr(d.nbformat) \o <<".">> \o PyStr(d.nbformat_minor)

\* the loop with "else" in place of the test for "markdown": every entry that
\* is not code is built as a MarkdownCell
RECURSIVE AppendCellsElseMarkdown(_, _, _)
AppendCellsElseMarkdown(entries, i, cells) ==
    IF i > Len(entries) THEN [exc |-> "none", cells |-> cells]
    ELSE
      LET cell == entries[i]
          c == IF cell.cell_type = "code" THEN CodeCell(cell)
               ELSE MarkdownCell(cell)
      IN  IF c.exc = "KeyError" THEN [exc |-> "KeyError"]
          ELSE AppendCellsElseMarkdown(entries, i + 1, Append(cells, c.obj))

\* the loop of Notebook.__init__ over ipynb['cells'], from entry i on, with
\* the cells appended so far
RECURSIVE AppendCells(_, _, _)
AppendCells(entries, i, cells) ==
    IF i > Len(entries) THEN [exc |-> "none", cells |-> cells]
    ELSE
      LET cell == entries[i]
          c1 == IF cell.cell_type = "code" THEN CodeCell(cell)
                ELSE [exc |-> "skip"]
          cells1 == IF c1.exc = "none" THEN Append(cells, c1.obj) ELSE cells
          c2 == IF cell.cell_type = "markdown" THEN MarkdownCell(cell)
                ELSE [exc |-> "skip"]
          cells2 == IF c2.exc = "none" THEN Append(cells1, c2.obj) ELSE cells1
      IN  IF c1.exc = "KeyError" \/ c2.exc = "KeyError"
          THEN [exc |-> "KeyError"]
          ELSE AppendCells(entries, i + 1, cells2)

\* Notebook.__init__
NotebookInit(d) ==
    LET r == AppendCells(d.cells, 1, <<>>) IN
    IF r.exc # "none" THEN [exc |-> r.exc]
    ELSE [exc |-> "none",
          obj |-> [version |-> get_format_version(d), cells |-> r.cells]]

\* Notebook.__iter__: iter(self.cells), the cells in list order
NotebookIter(notebook) == notebook.cells

(***************************************************************************)
(* PyPercentSerializer.                                                    *)
(***************************************************************************)
\* '\n# %% [markdown]\n'
MarkdownMarker ==
    <<NL, "#", " ", "%", "%", " ", "[", "m", "a", "r", "k", "d", "o", "w", "n",
      "]", NL>>

\* '\n# %%\n'
CodeMarker == <<NL, "#", " ", "%", "%", NL>>

\* [i.strip() for i in cell.source]
StrippedSource(cell) ==
    [i \in 1..Len(cell.source) |-> Strip(cell.source[i])]

\* the text one turn of the loop of to_py_percent adds for a cell
PyPercentBlock(cell) ==
    IF IsMarkdownCell(cell)
    THEN MarkdownMarker
         \o <<"#", " ">> \o Join(<<NL, "#", " ">>, StrippedSource(cell)) \o <<NL>>
    ELSE IF IsCodeCell(cell)
    THEN CodeMarker \o Join(<<NL>>, StrippedSource(cell)) \o <<NL>>
    ELSE <<>>

\* the loop of to_py_percent: text after the cells from i on are added
RECURSIVE PyPercentLoop(_, _, _)
PyPercentLoop(cells, i, text) ==
    IF i > Len(cells) THEN text
    ELSE PyPercentLoop(cells, i + 1, text \o PyPercentBlock(cells[i]))

\* PyPercentSerializer.to_py_percent
to_py_percent(notebook) == Strip(PyPercentLoop(NotebookIter(notebook), 1, <<>>))

(***************************************************************************)
(* Serializer.                                                             *)
(***************************************************************************)
EmptyDict == <<>>
EmptyList == <<>>

\* the entry with the key spelt 'medatada', as the doctest of Serializer
\* prints it
SerializeCellMedatada(cell) ==
    LET dictionnaire1 ==
            [cell_type |-> "0", id |-> cell.id, medatada |-> EmptyDict,
             source |-> cell.source]
    IN  IF IsMarkdownCell(cell)
        THEN [dictionnaire1 EXCEPT !.cell_type = "markdown"]
        ELSE [execution_count |-> cell.execution_count, outputs |-> EmptyList]
             @@ [dictionnaire1 EXCEPT !.cell_type = "code"]

\* the entry Serializer.serialize builds for a cell (dictionnaire1)
SerializeCell(cell) ==
    LET dictionnaire1 ==
            [cell_type |-> "0", id |-> cell.id, metadata |-> EmptyDict,
             source |-> cell.source]
    IN  IF IsMarkdownCell(cell)
        THEN [dictionnaire1 EXCEPT !.cell_type = "markdown"]
        ELSE IF IsCodeCell(cell)
        THEN [execution_count |-> cell.execution_count, outputs |-> EmptyList]
             @@ [dictionnaire1 EXCEPT !.cell_type = "code"]
        ELSE dictionnaire1

\* the loop of Serializer.serialize over the cells
SerializeCells(cells) == [i \in 1..Len(cells) |-> SerializeCell(cells[i])]

\* the entries with their source lines stripped, as the text renderings
\* strip them
serializeStripped(notebook) ==
    LET parts == Split(notebook.version, ".") IN
    IF Len(parts) # 2 THEN [exc |-> "ValueError"]
    ELSE
      LET n1 == IntOfStr(parts[1])
          n2 == IntOfStr(parts[2])
          cells == NotebookIter(notebook)
      IN  IF n1.exc # "none" \/ n2.exc # "none" THEN [exc |-> "ValueError"]
          ELSE [exc |-> "none",
                s |-> [cells |-> [i \in 1..Len(cells) |->
                                    [SerializeCell(cells[i]) EXCEPT
                                        !.source = StrippedSource(cells[i])]],
                       metadata |-> EmptyDict,
                       nbformat |-> PyInt(n1.v),
                       nbformat_minor |-> PyInt(n2.v)]]

\* the version split without the unpacking into exactly two names: the
\* first two parts are taken, whatever follows them
serializeFirstTwoParts(notebook) ==
    LET parts == Split(notebook.version, ".") IN
    IF Len(parts) < 2 THEN [exc |-> "ValueError"]
    ELSE
      LET n1 == IntOfStr(parts[1])
          n2 == IntOfStr(parts[2])
      IN  IF n1.exc # "none" \/ n2.exc # "none" THEN [exc |-> "ValueError"]
          ELSE [exc |-> "none",
                s |-> [cells |-> SerializeCells(NotebookIter(notebook)),
                       metadata |-> EmptyDict,
                       nbformat |-> PyInt(n1.v),
                       nbformat_minor |-> PyInt(n2.v)]]

\* Serializer.serialize: the dict, or the ValueError of the unpacking of
\* version.split('.') or of int()
serialize(notebook) ==
    LET parts == Split(notebook.version, ".") IN
    IF Len(parts) # 2 THEN [exc |-> "ValueError"]
    ELSE
      LET n1 == IntOfStr(parts[1])
          n2 == IntOfStr(parts[2])
      IN  IF n1.exc # "none" \/ n2.exc # "none" THEN [exc |-> "ValueError"]
          ELSE [exc |-> "none",
                s |-> [cells |-> SerializeCells(NotebookIter(notebook)),
                       metadata |-> EmptyDict,
                       nbformat |-> PyInt(n1.v),
                       nbformat_minor |-> PyInt(n2.v)]]

(***************************************************************************)
(* Outliner.                                                               *)
(***************************************************************************)
\* 'Jupyter Notebook v'
OutlineTitle ==
    <<"J", "u", "p", "y", "t", "e", "r", " ", "N", "o", "t", "e", "b", "o", "o",
      "k", " ", "v">>

\* the glyphs: U+250C is the down-and-right corner, U+2514 the up-and-right
\* corner, U+2502 the vertical bar, U+2500 the horizontal bar, U+25B6 the
\* right-pointing triangle
GlyphFirst == <<"<U+250C>", " ">>
GlyphLast == <<"<U+2514>", " ">>
GlyphInterior == <<"<U+2502>", " ">>
GlyphSingle == <<"|">>
HeaderArrow == <<"<U+2514>", "<U+2500>", "<U+25B6>", " ">>

\* start, as the loop over cell.source chooses it for a line
LineStart(source, line) ==
    IF Len(source) > 1
    THEN IF line = source[1] THEN GlyphFirst
         ELSE IF line = source[Len(source)] THEN GlyphLast
         ELSE GlyphInterior
    ELSE GlyphSingle

\* f'    {start} {line.strip()}\n'
OutlineLine(source, line) ==
    <<" ", " ", " ", " ">> \o LineStart(source, line) \o <<" ">> \o Strip(line)
    \o <<NL>>

RECURSIVE OutlineLines(_, _, _)
OutlineLines(source, i, text) ==
    IF i > Len(source) THEN text
    ELSE OutlineLines(source, i + 1, text \o OutlineLine(source, source[i]))

\* f'<arrow> {cell_type} cell #{cell.id}{count}\n'
OutlineHeader(cell) ==
    LET cell_type == IF IsMarkdownCell(cell)
                     THEN <<"M", "a", "r", "k", "d", "o", "w", "n">>
                     ELSE <<"C", "o", "d", "e">>
        count == IF IsMarkdownCell(cell) THEN <<>>
                 ELSE <<" ", "(">> \o PyStr(cell.execution_count) \o <<")">>
    IN  HeaderArrow \o cell_type \o <<" ", "c", "e", "l", "l", " ", "#">>
        \o cell.id \o count \o <<NL>>

RECURSIVE OutlineLoop(_, _, _)
OutlineLoop(cells, i, text) ==
    IF i > Len(cells) THEN text
    ELSE OutlineLoop(cells, i + 1,
                     OutlineLines(cells[i].source, 1,
                                  text \o OutlineHeader(cells[i])))

\* the outline without the final text[:-1]
outlineUntrimmed(notebook) ==
    OutlineLoop(NotebookIter(notebook), 1,
                OutlineTitle \o notebook.version \o <<NL>>)

\* Outliner.outline: text[:-1]
outline(notebook) ==
    LET text == OutlineLoop(NotebookIter(notebook), 1,
                            OutlineTitle \o notebook.version \o <<NL>>)
    IN  SubSeq(text, 1, Len(text) - 1)

(***************************************************************************)
(* json.dump / json.load of the structures the program writes and reads.   *)
(* The layout of the text (braces, commas, key order) is left out; every   *)
(* scalar is written as its JSON token and read back from it.              *)
(***************************************************************************)
\* the body of a JSON string: newline, quote and backslash are escaped
RECURSIVE JsonEscape(_)
JsonEscape(s) ==
    IF s = <<>> THEN <<>>
    ELSE (CASE Head(s) = NL -> <<"\\", "n">>
            [] Head(s) = "\t" -> <<"\\", "t">>
            [] Head(s) \in {"\"", "\\"} -> <<"\\", Head(s)>>
            [] OTHER -> <<Head(s)>>) \o JsonEscape(Tail(s))

RECURSIVE JsonUnescape(_)
JsonUnescape(s) ==
    IF s = <<>> THEN <<>>
    ELSE IF Head(s) = "\\" /\ Len(s) > 1
    THEN (CASE s[2] = "n" -> <<NL>>
            [] s[2] = "t" -> <<"\t">>
            [] OTHER -> <<s[2]>>) \o JsonUnescape(SubSeq(s, 3, Len(s)))
    ELSE <<Head(s)>> \o JsonUnescape(Tail(s))

JsonString(s) == <<"\"">> \o JsonEscape(s) \o <<"\"">>
JsonStringValue(tok) == JsonUnescape(SubSeq(tok, 2, Len(tok) - 1))

JsonNull == <<"n", "u", "l", "l">>

\* None and int as JSON tokens
JsonScalar(v) == IF v.t = "None" THEN JsonNull ELSE IntToStr(v.v)

JsonScalarValue(tok) ==
    IF tok = JsonNull THEN PyNone
    ELSE IF Head(tok) = "-" THEN PyInt(0 - DigitsValue(Tail(tok), 0))
    ELSE PyInt(DigitsValue(tok, 0))

\* one key of a dumped dict
JsonDumpField(k, v) ==
    CASE k = "id" -> JsonString(v)
      [] k = "source" -> [i \in 1..Len(v) |-> JsonString(v[i])]
      [] k \in {"execution_count", "nbformat", "nbformat_minor"} -> JsonScalar(v)
      [] OTHER -> v

JsonLoadField(k, v) ==
    CASE k = "id" -> JsonStringValue(v)
      [] k = "source" -> [i \in 1..Len(v) |-> JsonStringValue(v[i])]
      [] k \in {"execution_count", "nbformat", "nbformat_minor"} ->
            JsonScalarValue(v)
      [] OTHER -> v

JsonDumpCell(e) == [k \in DOMAIN e |-> JsonDumpField(k, e[k])]
JsonLoadCell(e) == [k \in DOMAIN e |-> JsonLoadField(k, e[k])]

\* json.dump(s, outfile): what the file holds
json_dump(s) ==
    [k \in DOMAIN s |->
        IF k = "cells" THEN [i \in 1..Len(s[k]) |-> JsonDumpCell(s[k][i])]
        ELSE JsonDumpField(k, s[k])]

\* json.load(file)
json_load(doc) ==
    [k \in DOMAIN doc |->
        IF k = "cells" THEN [i \in 1..Len(doc[k]) |-> JsonLoadCell(doc[k][i])]
        ELSE JsonLoadField(k, doc[k])]

\* Serializer.to_file: open(filename, "w") empties the file, then
\* json.dump(self.serialize(), outfile) writes it unless serialize raises
to_file(notebook) ==
    LET r == serialize(notebook) IN
    IF r.exc # "none"
    THEN [exc |-> r.exc, file |-> [state |-> "empty"]]
    ELSE [exc |-> "none", file |-> [state |-> "json", doc |-> json_dump(r.s)]]

\* Notebook.from_file: json.load of the file, then Notebook(ipynb)
from_file(file) ==
    IF file.state # "json" THEN [exc |-> "JSONDecodeError"]
    ELSE NotebookInit(json_load(file.doc))

(***************************************************************************)
(* The .ipynb structures the program is run on.                            *)
(***************************************************************************)
\* source lines as an .ipynb file holds them: ' a\n', the blank line '\n',
\* and 'b c', without the newline, as the last line of a cell is stored
Line1 == <<" ", "a", NL>>
Line2 == <<NL>>
Line3 == <<"b", " ", "c">>
LinePool == {Line1, Line2, Line3}

SeqsUpTo(S, n) == UNION {[1..k -> S] : k \in 0..n}

\* the id of the i-th entry: ids are unique within a notebook
CellId(i) == <<"c">> \o NatToStr(i)

\* nbformat and nbformat_minor as the files hold them: ints, and the values a
\* malformed file may hold in their place (null, a float)
VersionFields ==
    {<<PyInt(4), PyInt(5)>>, <<PyInt(10), PyInt(2)>>, <<PyInt(-1), PyInt(0)>>,
     <<PyNone, PyInt(5)>>, <<PyFloat(4, 0), PyInt(5)>>, <<PyInt(4), PyNone>>}

\* entries without their id: code and markdown cells, a "raw" cell (which
\* never gets an id here) and a code cell that lacks execution_count
EntryPool ==
    {[cell_type |-> "code", source |-> <<>>, execution_count |-> PyNone,
      metadata |-> EmptyDict, outputs |-> <<"out">>],
     [cell_type |-> "code", source |-> <<Line1, Line2>>,
      execution_count |-> PyInt(12), metadata |-> EmptyDict,
      outputs |-> EmptyList],
     [cell_type |-> "markdown", source |-> <<Line1, Line3>>,
      metadata |-> EmptyDict],
     [cell_type |-> "markdown", source |-> <<>>],
     [cell_type |-> "raw", source |-> <<Line1>>],
     [cell_type |-> "code", source |-> <<Line1>>]}

\* entries for the two text renderings: every source of up to MaxSourceLen
\* lines, as a markdown and as a code cell
TextEntryPool ==
    {[cell_type |-> "markdown", source |-> src] :
        src \in SeqsUpTo(LinePool, MaxSourceLen)}
    \cup {[cell_type |-> "code", source |-> src, execution_count |-> PyInt(1)] :
            src \in SeqsUpTo(LinePool, MaxSourceLen)}

WithId(e, i) == IF e.cell_type = "raw" THEN e ELSE [id |-> CellId(i)] @@ e

Ipynb(version, entries) ==
    [nbformat |-> version[1], nbformat_minor |-> version[2],
     metadata |-> EmptyDict,
     cells |-> [i \in 1..Len(entries) |-> WithId(entries[i], i)]]

NoNotebook == [version |-> <<>>, cells |-> <<>>]
NoIterator == [active |-> FALSE, pos |-> 0, yielded |-> <<>>]

Start ==
    /\ pc = "start"
    /\ nb = NoNotebook
    /\ ret = [op |-> "none", exc |-> "none"]
    /\ disk = [state |-> "absent"]
    /\ iterator = NoIterator

Init ==
    /\ \E version \in VersionFields :
         \E entries \in SeqsUpTo(EntryPool, MaxCells) :
            raw = Ipynb(version, entries)
    /\ Start

InitText ==
    /\ \E entries \in SeqsUpTo(TextEntryPool, MaxCells) :
         raw = Ipynb(<<PyInt(4), PyInt(5)>>, entries)
    /\ Start

(***************************************************************************)
(* The operations.                                                         *)
(***************************************************************************)
\* nb = Notebook(ipynb)
Load ==
    /\ pc = "start"
    /\ LET r == NotebookInit(raw) IN
         /\ pc' = IF r.exc = "none" THEN "loaded" ELSE "failed"
         /\ nb' = IF r.exc = "none" THEN r.obj ELSE nb
         /\ ret' = [op |-> "Notebook", exc |-> r.exc]
    /\ UNCHANGED <<raw, disk, iterator>>

\* serialize() that strips the source lines of the notebook's cells in place
SerializeInPlace ==
    /\ pc = "loaded"
    /\ ret' = [op |-> "serialize"] @@ serialize(nb)
    /\ nb' = [nb EXCEPT !.cells =
                [i \in 1..Len(nb.cells) |->
                    [nb.cells[i] EXCEPT !.source = StrippedSource(nb.cells[i])]]]
    /\ UNCHANGED <<raw, pc, disk, iterator>>

\* Serializer(nb).serialize()
Serialize ==
    /\ pc = "loaded"
    /\ ret' = [op |-> "serialize"] @@ serialize(nb)
    /\ UNCHANGED <<raw, pc, nb, disk, iterator>>

\* Serializer(nb).to_file(filename)
ToFile ==
    /\ pc = "loaded"
    /\ LET r == to_file(nb) IN
         /\ ret' = [op |-> "to_file", exc |-> r.exc]
         /\ disk' = r.file
    /\ UNCHANGED <<raw, pc, nb, iterator>>

\* Notebook.from_file(filename), of the file to_file wrote
FromFile ==
    /\ pc = "loaded"
    /\ disk.state # "absent"
    /\ ret' = [op |-> "from_file"] @@ from_file(disk)
    /\ UNCHANGED <<raw, pc, nb, disk, iterator>>

\* PyPercentSerializer(nb).to_py_percent()
ToPyPercent ==
    /\ pc = "loaded"
    /\ ret' = [op |-> "to_py_percent", exc |-> "none", text |-> to_py_percent(nb)]
    /\ UNCHANGED <<raw, pc, nb, disk, iterator>>

\* Outliner(nb).outline()
Outline ==
    /\ pc = "loaded"
    /\ ret' = [op |-> "outline", exc |-> "none", text |-> outline(nb)]
    /\ UNCHANGED <<raw, pc, nb, disk, iterator>>

\* iter(nb): a new list iterator over nb.cells
IterStart ==
    /\ pc = "loaded"
    /\ iterator' = [active |-> TRUE, pos |-> 1, yielded |-> <<>>]
    /\ UNCHANGED <<raw, pc, nb, ret, disk>>

\* next(it): the cell at the iterator's position
IterNext ==
    /\ pc = "loaded"
    /\ iterator.active
    /\ iterator.pos <= Len(NotebookIter(nb))
    /\ iterator' = [iterator EXCEPT
                      !.pos = @ + 1,
                      !.yielded = Append(@, NotebookIter(nb)[iterator.pos])]
    /\ UNCHANGED <<raw, pc, nb, ret, disk>>

Next ==
    \/ Load
    \/ Serialize
    \/ ToFile
    \/ FromFile
    \/ ToPyPercent
    \/ Outline
    \/ IterStart
    \/ IterNext

Spec == Init /\ [][Next]_vars

NextText ==
    \/ Load
    \/ ToPyPercent
    \/ Outline

SpecText == InitText /\ [][NextText]_vars

(***************************************************************************)
(* Properties.                                                             *)
(***************************************************************************)
\* the (id, cell_type, source, execution_count-if-code) tuple of a cell
CellTuple(cell) ==
    IF IsCodeCell(cell)
    THEN <<cell.id, "code", cell.source, cell.execution_count>>
    ELSE <<cell.id, "markdown", cell.source>>

CellTuples(notebook) ==
    [i \in 1..Len(notebook.cells) |-> CellTuple(notebook.cells[i])]

\* C1: JSON round trip.  Loading the file Serializer.to_file wrote gives a
\* notebook with the version string of the written notebook and the same
\* sequence of (id, cell_type, source, execution_count-if-code) tuples.
C1_RoundTrip ==
    (ret.op = "from_file" /\ disk.state = "json") =>
        /\ ret.exc = "none"
        /\ ret.obj.version = nb.version
        /\ CellTuples(ret.obj) = CellTuples(nb)

\* a notebook with a code cell (execution count 12, two source lines with
\* whitespace) and a markdown cell, of version 10.2, was written and reloaded
C1_Witness ==
    /\ ret.op = "from_file"
    /\ ret.exc = "none"
    /\ nb.version = <<"1", "0", ".", "2">>
    /\ Len(nb.cells) = 2
    /\ IsCodeCell(nb.cells[1]) /\ nb.cells[1].execution_count = PyInt(12)
    /\ nb.cells[1].source = <<Line1, Line2>>
    /\ IsMarkdownCell(nb.cells[2])

Recognized(e) == e.cell_type \in {"code", "markdown"}

\* the keys the constructor of a recognized entry reads
RequiredKeys(e) ==
    IF e.cell_type = "code" THEN {"id", "source", "execution_count"}
    ELSE {"id", "source"}

\* the cell an entry is expected to become
ExpectedCell(e) ==
    IF e.cell_type = "code"
    THEN <<e.id, "code", e.source, e.execution_count>>
    ELSE <<e.id, "markdown", e.source>>

\* C2: Notebook construction keeps exactly the entries whose cell_type is
\* "code" (as CodeCell) or "markdown" (as MarkdownCell), in order; any other
\* entry is skipped without error, so the cell count is the raw count minus
\* the number of unrecognized entries.
C2_Construct ==
    LET kept == SelectSeq(raw.cells, Recognized)
        unrecognized == {i \in 1..Len(raw.cells) : ~Recognized(raw.cells[i])}
    IN  /\ pc = "loaded" =>
             /\ Len(nb.cells) = Len(raw.cells) - Cardinality(unrecognized)
             /\ CellTuples(nb) = [j \in 1..Len(kept) |-> ExpectedCell(kept[j])]
             /\ (unrecognized = {} => Len(nb.cells) = Len(raw.cells))
        /\ pc = "failed" =>
             \E i \in 1..Len(raw.cells) :
                /\ Recognized(raw.cells[i])
                /\ ~(RequiredKeys(raw.cells[i]) \subseteq DOMAIN raw.cells[i])

\* a structure of a "raw" entry (with no id) followed by a code entry was
\* loaded, and the notebook holds the code cell alone
C2_Witness ==
    /\ pc = "loaded"
    /\ Len(raw.cells) = 2
    /\ raw.cells[1].cell_type = "raw" /\ ~HasKey(raw.cells[1], "id")
    /\ raw.cells[2].cell_type = "code"
    /\ Len(nb.cells) = 1 /\ IsCodeCell(nb.cells[1])

NumDots(s) == Cardinality({i \in 1..Len(s) : s[i] = "."})

\* a string of decimal digits, with an optional minus sign before them
IsNumeric(s) ==
    LET digits == IF s # <<>> /\ Head(s) = "-" THEN Tail(s) ELSE s IN
    /\ digits # <<>>
    /\ \A i \in 1..Len(digits) : digits[i] \in DigitSet

MajorPart(version) == SubSeq(version, 1, Find(version, ".") - 1)
MinorPart(version) == SubSeq(version, Find(version, ".") + 1, Len(version))

\* C4: Serializer.serialize sets nbformat and nbformat_minor to the integer
\* values of the two parts of the version ("4.5" gives 4 and 5, "10.2" gives
\* 10 and 2), and fails, returning no structure, when the version does not
\* contain exactly one "." or a part is not numeric.
C4_Version ==
    ret.op = "serialize" =>
        IF /\ NumDots(nb.version) = 1
           /\ IsNumeric(MajorPart(nb.version))
           /\ IsNumeric(MinorPart(nb.version))
        THEN /\ ret.exc = "none"
             /\ ret.s.nbformat.t = "int" /\ ret.s.nbformat_minor.t = "int"
             /\ IntToStr(ret.s.nbformat.v) = MajorPart(nb.version)
             /\ IntToStr(ret.s.nbformat_minor.v) = MinorPart(nb.version)
             /\ (nb.version = <<"4", ".", "5">> =>
                    ret.s.nbformat.v = 4 /\ ret.s.nbformat_minor.v = 5)
             /\ (nb.version = <<"1", "0", ".", "2">> =>
                    ret.s.nbformat.v = 10 /\ ret.s.nbformat_minor.v = 2)
        ELSE /\ ret.exc = "ValueError"
             /\ ~HasKey(ret, "s")

\* serialize was called on a notebook whose version, "4.0.5", has two dots
C4_Witness ==
    /\ ret.op = "serialize"
    /\ ret.exc = "ValueError"
    /\ nb.version = <<"4", ".", "0", ".", "5">>

\* the lines of a text
LinesOf(text) == Split(text, NL)

IsPrefix(p, s) == Len(p) <= Len(s) /\ SubSeq(s, 1, Len(p)) = p

\* the header line the outline is expected to hold for a cell
ExpectedHeader(cell) ==
    IF IsCodeCell(cell)
    THEN <<"<U+2514>", "<U+2500>", "<U+25B6>", " ", "C", "o", "d", "e", " ",
           "c", "e", "l", "l", " ", "#">>
         \o cell.id \o <<" ", "(">> \o PyStr(cell.execution_count) \o <<")">>
    ELSE <<"<U+2514>", "<U+2500>", "<U+25B6>", " ", "M", "a", "r", "k", "d", "o",
           "w", "n", " ", "c", "e", "l", "l", " ", "#">>
         \o cell.id

IsHeaderLine(line) == IsPrefix(<<"<U+2514>", "<U+2500>", "<U+25B6>">>, line)

\* C9: the outline starts with the line "Jupyter Notebook v<version>" and
\* holds, for each cell in document order, one header line
\* "<arrow> <Type> cell #<id>", followed by " (<execution_count>)" exactly for
\* a code cell; the trailing newline is trimmed, so the outline of a notebook
\* with no cells is the first line alone.
C9_OutlineHeaders ==
    ret.op = "outline" =>
        LET lines == LinesOf(ret.text) IN
        /\ lines[1] = <<"J", "u", "p", "y", "t", "e", "r", " ", "N", "o", "t",
                        "e", "b", "o", "o", "k", " ", "v">> \o nb.version
        /\ SelectSeq(Tail(lines), IsHeaderLine)
             = [k \in 1..Len(nb.cells) |-> ExpectedHeader(nb.cells[k])]
        /\ ret.text[Len(ret.text)] # NL
        /\ (nb.cells = <<>> => Len(lines) = 1)

\* the outline of a notebook of a code cell without execution count and a
\* markdown cell was rendered
C9_Witness ==
    /\ ret.op = "outline"
    /\ Len(nb.cells) = 2
    /\ IsCodeCell(nb.cells[1]) /\ nb.cells[1].execution_count = PyNone
    /\ IsMarkdownCell(nb.cells[2]) /\ nb.cells[2].source # <<>>

\* C10: a Notebook is not changed after its construction: no operation
\* (serialize, to_file, from_file, to_py_percent, outline, iteration) changes
\* its version or its cells, and every completed iteration has yielded the
\* notebook's cells in document order.
C10_Immutable ==
    /\ [][pc = "loaded" => nb' = nb]_vars
    /\ [](iterator.active /\ iterator.pos > Len(nb.cells) =>
             iterator.yielded = nb.cells)

\* an iteration over a notebook of two cells, one with source lines that
\* have whitespace to strip, was completed after the notebook was serialized
C10_Witness ==
    /\ ret.op = "serialize"
    /\ iterator.active /\ iterator.pos = 3
    /\ Len(nb.cells) = 2
    /\ nb.cells[1].source = <<Line1, Line2>>

\* the marker line of a cell in py-percent text
MarkerLine(cell) ==
    IF IsMarkdownCell(cell)
    THEN <<"#", " ", "%", "%", " ", "[", "m", "a", "r", "k", "d", "o", "w", "n",
           "]">>
    ELSE <<"#", " ", "%", "%">>

\* one line per source line: stripped, with "# " before it in a markdown cell
RECURSIVE BodyLines(_, _)
BodyLines(cell, i) ==
    IF i > Len(cell.source) THEN <<>>
    ELSE (IF IsMarkdownCell(cell) THEN <<"#", " ">> ELSE <<>>)
         \o Strip(cell.source[i]) \o <<NL>> \o BodyLines(cell, i + 1)

\* a blank line, the marker line, the body lines
RECURSIVE MarkerAndBodyBlocks(_, _)
MarkerAndBodyBlocks(cells, i) ==
    IF i > Len(cells) THEN <<>>
    ELSE <<NL>> \o MarkerLine(cells[i]) \o <<NL>> \o BodyLines(cells[i], 1)
         \o MarkerAndBodyBlocks(cells, i + 1)

\* C5: to_py_percent renders each cell, in document order, as its marker
\* line ("# %% [markdown]" or "# %%") followed by one line per source line,
\* stripped, with "# " before it in a markdown cell and nothing before it in
\* a code cell; the whole text is then stripped.
C5_PyPercent ==
    ret.op = "to_py_percent" =>
        ret.text = Strip(MarkerAndBodyBlocks(nb.cells, 1))

\* C5 for the notebooks in which every cell has at least one source line
C5_NonEmptySources ==
    (ret.op = "to_py_percent" /\ \A i \in 1..Len(nb.cells) : nb.cells[i].source # <<>>)
        => ret.text = Strip(MarkerAndBodyBlocks(nb.cells, 1))

\* the positions, in order, of the marker lines among the lines of a text
RECURSIVE MarkerPositions(_, _)
MarkerPositions(lines, j) ==
    IF j > Len(lines) THEN <<>>
    ELSE (IF IsPrefix(<<"#", " ", "%", "%">>, lines[j]) THEN <<j>> ELSE <<>>)
         \o MarkerPositions(lines, j + 1)

\* C6: in the output of to_py_percent, between the last body line of a cell
\* and the marker line of the next cell there is exactly one empty line,
\* whatever the source lines of the cells are.
C6_OneBlankLine ==
    ret.op = "to_py_percent" =>
        LET lines == LinesOf(ret.text)
            m == MarkerPositions(lines, 1)
        IN  /\ Len(m) = Len(nb.cells)
            /\ \A k \in 1..(Len(nb.cells) - 1) :
                 /\ m[k + 1] = m[k] + Len(nb.cells[k].source) + 2
                 /\ lines[m[k + 1] - 1] = <<>>

\* C6 for the notebooks in which every cell has at least one source line
C6_NonEmptySources ==
    (ret.op = "to_py_percent" /\ \A i \in 1..Len(nb.cells) : nb.cells[i].source # <<>>)
        => LET lines == LinesOf(ret.text)
               m == MarkerPositions(lines, 1)
           IN  /\ Len(m) = Len(nb.cells)
               /\ \A k \in 1..(Len(nb.cells) - 1) :
                    /\ m[k + 1] = m[k] + Len(nb.cells[k].source) + 2
                    /\ lines[m[k + 1] - 1] = <<>>

\* C7: for a cell whose source is the empty list, to_py_percent emits the
\* marker line and no body line: the marker line is the last line of the
\* output, or it is followed by the one empty line that separates it from the
\* marker line of the next cell.
C7_EmptySource ==
    ret.op = "to_py_percent" =>
        LET lines == LinesOf(ret.text)
            m == MarkerPositions(lines, 1)
        IN  /\ ret.exc = "none"
            /\ Len(m) = Len(nb.cells)
            /\ \A k \in 1..Len(nb.cells) :
                 nb.cells[k].source = <<>> =>
                    /\ lines[m[k]] = MarkerLine(nb.cells[k])
                    /\ IF k = Len(nb.cells) THEN m[k] = Len(lines)
                       ELSE m[k + 1] = m[k] + 2 /\ lines[m[k] + 1] = <<>>

\* the glyph of the i-th line of a source, by its position
GlyphByPosition(source, i) ==
    IF Len(source) = 1 THEN <<"|">>
    ELSE IF i = 1 THEN <<"<U+250C>", " ">>
    ELSE IF i = Len(source) THEN <<"<U+2514>", " ">>
    ELSE <<"<U+2502>", " ">>

\* the line of the outline that holds the header of the k-th cell
RECURSIVE HeaderPosition(_, _)
HeaderPosition(cells, k) ==
    IF k = 1 THEN 2
    ELSE HeaderPosition(cells, k - 1) + Len(cells[k - 1].source) + 1

\* C8: in the outline, the glyph of each source line is given by its position
\* in the source list: the bare "|" in a cell of one line; otherwise the
\* down-and-right corner for the first line, the up-and-right corner for the
\* last, the vertical bar for every line between, also when lines have the
\* same text.
C8_GlyphByPosition ==
    ret.op = "outline" =>
        LET lines == LinesOf(ret.text) IN
        \A k \in 1..Len(nb.cells) :
            \A i \in 1..Len(nb.cells[k].source) :
                lines[HeaderPosition(nb.cells, k) + i] =
                    <<" ", " ", " ", " ">>
                    \o GlyphByPosition(nb.cells[k].source, i)
                    \o <<" ">> \o Strip(nb.cells[k].source[i])

\* C8 for the cells in which neither the first nor the last line of the
\* source occurs at another position
C8_DistinctBoundaryLines ==
    ret.op = "outline" =>
        LET lines == LinesOf(ret.text) IN
        \A k \in 1..Len(nb.cells) :
            LET source == nb.cells[k].source IN
            (\A i \in 2..Len(source) :
                /\ source[i] # source[1]
                /\ i < Len(source) => source[i] # source[Len(source)])
            => \A i \in 1..Len(source) :
                lines[HeaderPosition(nb.cells, k) + i] =
                    <<" ", " ", " ", " ">> \o GlyphByPosition(source, i)
                    \o <<" ">> \o Strip(source[i])

====
